---- MODULE Spec2Model ----
(***************************************************************************)
(* Model of package nftns (src/nft/nftns/nftns.go): the namespace-scoped   *)
(* read/apply protocol for an nftables configuration document.             *)
(*                                                                         *)
(* Byte buffers and rendered error messages are sequences of tokens        *)
(* (strings); a Go slice is a record [isNil, elems] so that a nil slice    *)
(* and an empty, initialized slice are different values.                   *)
(***************************************************************************)
EXTENDS Naturals, Sequences, FiniteSets, TLC

VARIABLES
    NSEnterBinPath,  \* package variable, nftns.go:41
    NFTBinPath,      \* package variable, nftns.go:42
    docs,            \* the *Config values handed to callers (heap), in order
    pc,              \* per caller: where its current call stands
    call,            \* per caller: the frame (and, once idle, the result) of its call
    ncalls,          \* number of calls made so far
    nsWrites,        \* number of assignments to NSEnterBinPath so far
    nedits,          \* number of edits callers have made to their documents
    overlap          \* some call has started while another call was in progress

vars == <<NSEnterBinPath, NFTBinPath, docs, pc, call, ncalls, nsWrites, nedits,
          overlap>>

----------------------------------------------------------------------------
(* Bounds of the model *)

\* total number of New/ReadConfig/ApplyConfig calls in a run
MaxCalls == 3
\* total number of edits callers make to the documents they hold
MaxEdits == 1

\* the goroutines calling into the package
Threads == {"t1", "t2"}
\* namespace references callers supply
Refs == {"/var/run/netns/ns0", "/var/run/netns/ns1"}

----------------------------------------------------------------------------
(* Program constants, nftns.go:32-38 *)

cmdFile == "-f"
cmdJSON == "-j"
cmdList == "list"
cmdRuleset == "ruleset"
cmdStdin == "-"

----------------------------------------------------------------------------
(* Go values *)

\* a nil []byte / []schema.Nftable, and an initialized one
NilSlice == [isNil |-> TRUE, elems |-> <<>>]
Slice(s) == [isNil |-> FALSE, elems |-> s]

\* error values: kind "none" is Go's nil error.  msg is the rendered form
\* (Error()), unwrap the kind of the error reachable through errors.Unwrap.
NoError == [kind |-> "none", msg |-> <<>>, unwrap |-> "none"]

\* s contains part as a contiguous run of tokens
Contains(s, part) ==
    \E i \in 0..(Len(s) - Len(part)) :
        \A j \in 1..Len(part) : s[i + j] = part[j]

\* strings.Join(a, sep), as tokens
RECURSIVE Join(_, _)
Join(a, sep) ==
    IF Len(a) = 0 THEN <<>>
    ELSE IF Len(a) = 1 THEN <<a[1]>>
    ELSE <<a[1], sep>> \o Join(Tail(a), sep)

----------------------------------------------------------------------------
(* exec.LookPath("nsenter") / exec.LookPath("nft"): what the environment   *)
(* can answer.  A failed lookup returns the empty path and an error.       *)

NSEnterPaths == {"/usr/bin/nsenter"}
NFTPaths == {"/usr/sbin/nft"}

LookPathResults(paths) ==
    {[path |-> p, found |-> TRUE] : p \in paths}
        \cup {[path |-> "", found |-> FALSE]}

LookPathError ==
    [kind |-> "ToolNotFound",
     msg |-> <<"exec: ", "nsenter", ": executable file not found in $PATH">>,
     unwrap |-> "ErrNotFound"]

----------------------------------------------------------------------------
(* The wire format, owned by the embedded nftconfig.Config (ToJSON,        *)
(* FromJSON) and the schema package.  An entity is one token; an entity    *)
(* holding a malformed raw expression cannot be marshalled.                *)

Entities == {"table", "chain", "rawbad"}
Encodable == {"table", "chain"}

\* a *Config built without its NetNSPath
Config_Unbound(netNSPath) == [NetNSPath |-> "", Nftables |-> NilSlice]

\* the *Config built at nftns.go:60-62: the embedded Config is zero-valued
Config(netNSPath) == [NetNSPath |-> netNSPath, Nftables |-> NilSlice]

MarshalError ==
    [kind |-> "Encode", msg |-> <<"json: error calling MarshalJSON">>,
     unwrap |-> "MarshalerError"]

SyntaxError ==
    [kind |-> "Syntax", msg |-> <<"unexpected end of JSON input">>,
     unwrap |-> "none"]

\* a ToJSON that writes the entities last to first
ToJSON_Reversed(c) ==
    LET n == Len(c.Nftables.elems)
        rev == [i \in 1..n |-> c.Nftables.elems[n + 1 - i]]
    IN  IF \E i \in 1..n : c.Nftables.elems[i] \notin Encodable
        THEN [data |-> NilSlice, err |-> MarshalError]
        ELSE [data |-> Slice(<<"{", "nftables", ":">>
                             \o (IF c.Nftables.isNil
                                 THEN <<"null">>
                                 ELSE <<"[">> \o Join(rev, ",") \o <<"]">>)
                             \o <<"}">>),
              err |-> NoError]

\* c.ToJSON(): json.Marshal of the embedded Config; NetNSPath is not part of it
ToJSON(c) ==
    IF \E i \in 1..Len(c.Nftables.elems) : c.Nftables.elems[i] \notin Encodable
    THEN [data |-> NilSlice, err |-> MarshalError]
    ELSE [data |-> Slice(<<"{", "nftables", ":">>
                         \o (IF c.Nftables.isNil
                             THEN <<"null">>
                             ELSE <<"[">> \o Join(c.Nftables.elems, ",") \o <<"]">>)
                         \o <<"}">>),
          err |-> NoError]

\* the elements of a JSON array body: e1 , e2 , ... (ok = FALSE when malformed)
RECURSIVE ParseItems(_)
ParseItems(toks) ==
    IF Len(toks) = 0 THEN [ok |-> TRUE, elems |-> <<>>]
    ELSE IF toks[1] \notin Encodable THEN [ok |-> FALSE, elems |-> <<>>]
    ELSE IF Len(toks) = 1 THEN [ok |-> TRUE, elems |-> <<toks[1]>>]
    ELSE IF toks[2] # "," \/ Len(toks) = 2 THEN [ok |-> FALSE, elems |-> <<>>]
    ELSE LET rest == ParseItems(SubSeq(toks, 3, Len(toks)))
         IN  [ok |-> rest.ok, elems |-> <<toks[1]>> \o rest.elems]

\* c.FromJSON(data): json.Unmarshal into the embedded Config.  An absent
\* "nftables" member leaves the field as it is, null sets it to nil.
FromJSON(c, data) ==
    LET n == Len(data)
        body == SubSeq(data, 5, n - 2)
        items == ParseItems(body)
    IN  IF data = <<"{", "}">> THEN [c |-> c, err |-> NoError]
        ELSE IF data = <<"{", "nftables", ":", "null", "}">>
        THEN [c |-> [c EXCEPT !.Nftables = NilSlice], err |-> NoError]
        ELSE IF /\ n >= 6
                /\ SubSeq(data, 1, 4) = <<"{", "nftables", ":", "[">>
                /\ SubSeq(data, n - 1, n) = <<"]", "}">>
                /\ items.ok
        THEN [c |-> [c EXCEPT !.Nftables = Slice(items.elems)], err |-> NoError]
        ELSE [c |-> c, err |-> SyntaxError]

----------------------------------------------------------------------------
\* no exec.Cmd
NoCmd ==
    [built |-> FALSE, Path |-> "", Args |-> <<>>,
     Stdin |-> [attached |-> FALSE, data |-> <<>>],
     input |-> NilSlice, spawned |-> FALSE]

(* Frames.  call[t] is the frame of caller t's current call and, once the  *)
(* call has returned (pc[t] = "idle"), its result.                         *)

NoCall ==
    [op |-> "none",          \* "New", "ReadConfig" or "ApplyConfig"
     netNSPath |-> "",       \* the reference the call works on
     doc |-> 0,              \* ApplyConfig's argument c (index in docs)
     argc |-> Config(""),    \* *c as it was when ApplyConfig was called
     args |-> <<>>,          \* the tool arguments handed to execCommand
     cmd |-> NoCmd,          \* the exec.Cmd the call built
     spawns |-> 0,           \* processes the call has started
     lookups |-> 0,          \* exec.LookPath attempts the call has made
     lookErr |-> FALSE,      \* the lookup of the call failed (err != nil, line 67)
     status |-> 0,           \* exit status of the process
     out |-> <<>>,           \* captured stdout (local buffer)
     errout |-> <<>>,        \* captured stderr (local buffer)
     stdout |-> NilSlice,    \* the buffer execCommand returned (nil with an error)
     execErr |-> NoError,    \* the error execCommand returned
     ret |-> 0,              \* the *Config returned (index in docs), 0: nil
     retc |-> Config(""),    \* *ret as it was when the call returned
     err |-> NoError]        \* the error returned

Begin(op, netNSPath, doc) ==
    [NoCall EXCEPT !.op = op, !.netNSPath = netNSPath, !.doc = doc]

\* caller t enters the package: the call overlaps every call in progress
Enter(t) ==
    /\ pc[t] = "idle"
    /\ ncalls < MaxCalls
    /\ ncalls' = ncalls + 1
    /\ overlap' = (overlap \/ \E u \in Threads \ {t} : pc[u] # "idle")

\* the call of t returns: its frame f becomes its result
Return(t, f) ==
    /\ pc' = [pc EXCEPT ![t] = "idle"]
    /\ call' = [call EXCEPT ![t] = f]

----------------------------------------------------------------------------
(* init(), nftns.go:47-51: both paths are set from a best-effort lookup    *)

Init ==
    /\ NSEnterBinPath \in {r.path : r \in LookPathResults(NSEnterPaths)}
    /\ NFTBinPath \in {r.path : r \in LookPathResults(NFTPaths)}
    /\ docs = <<>>
    /\ pc = [t \in Threads |-> "idle"]
    /\ call = [t \in Threads |-> NoCall]
    /\ ncalls = 0
    /\ nsWrites = 1
    /\ nedits = 0
    /\ overlap = FALSE

----------------------------------------------------------------------------
(* New, nftns.go:59-75 *)

\* New without line 73: the entity sequence is left unset
InitNftables_Skipped(c) == c

\* nftns.go:73
InitNftables(c) == [c EXCEPT !.Nftables = Slice(<<>>)]

\* a ReadConfig that returns the document although FromJSON failed
ReadConfigDecode_IgnoresError(t, f, config) ==
    LET r == FromJSON(config, f.stdout.elems)
    IN  /\ docs' = Append(docs, r.c)
        /\ Return(t, [f EXCEPT !.ret = Len(docs) + 1, !.retc = r.c])

\* nftns.go:90-94, the rest of ReadConfig once New has returned config
ReadConfigDecode(t, f, config) ==
    LET r == FromJSON(config, f.stdout.elems)
    IN  IF r.err.kind # "none"
        THEN /\ Return(t, [f EXCEPT !.err =
                    [kind |-> "Decode",
                     msg |-> <<"failed to list ruleset: ">> \o r.err.msg,
                     unwrap |-> "none"]])
             /\ UNCHANGED docs
        ELSE /\ docs' = Append(docs, r.c)
             /\ Return(t, [f EXCEPT !.ret = Len(docs) + 1, !.retc = r.c])

\* nftns.go:73-74: New returns c to its caller
NewReturn(t, f) ==
    LET c == InitNftables(Config(f.netNSPath))
    IN  IF f.op = "New"
        THEN /\ docs' = Append(docs, c)
             /\ Return(t, [f EXCEPT !.ret = Len(docs) + 1, !.retc = c])
        ELSE ReadConfigDecode(t, f, c)

\* a New that looks the tool up whatever the package variable holds
NewCheck_Always(t, f) ==
    /\ pc' = [pc EXCEPT ![t] = "lookup"]
    /\ call' = [call EXCEPT ![t] = f]
    /\ UNCHANGED docs

\* nftns.go:60-65: the test of the package variable
NewCheck(t, f) ==
    IF NSEnterBinPath = ""
    THEN /\ pc' = [pc EXCEPT ![t] = "lookup"]
         /\ call' = [call EXCEPT ![t] = f]
         /\ UNCHANGED docs
    ELSE NewReturn(t, f)

\* a caller calls New(netNSPath)
New(t, netNSPath) ==
    /\ Enter(t)
    /\ NewCheck(t, Begin("New", netNSPath, 0))
    /\ UNCHANGED <<NSEnterBinPath, NFTBinPath, nsWrites, nedits>>

\* New without lines 67-69: the lookup's error is ignored
NewLookPathFailed_Ignored(t, f) == NewReturn(t, f)

\* nftns.go:67-69: the lookup failed; New returns nil and the error, which
\* ReadConfig returns as it is (line 88)
NewLookPathFailed(t, f) ==
    /\ Return(t, [f EXCEPT !.err = LookPathError])
    /\ UNCHANGED docs

\* a lazy lookup that resolves the ruleset tool as well when its path is empty
NewLookPath_ResolvesBoth(t) ==
    /\ pc[t] = "lookup"
    /\ \E r \in LookPathResults(NSEnterPaths) :
         LET f == [call[t] EXCEPT !.lookups = @ + 1, !.lookErr = ~r.found]
         IN  IF ~r.found
             THEN /\ NewLookPathFailed(t, f)
                  /\ UNCHANGED <<NSEnterBinPath, nsWrites>>
             ELSE /\ NSEnterBinPath' = r.path
                  /\ nsWrites' = nsWrites + 1
                  /\ NewReturn(t, f)
    /\ \E n \in LookPathResults(NFTPaths) :
         NFTBinPath' = IF NFTBinPath = "" THEN n.path ELSE NFTBinPath
    /\ UNCHANGED <<ncalls, nedits, overlap>>

\* a lazy lookup that falls back to the bare command name when it fails
NewLookPath_Fallback(t) ==
    /\ pc[t] = "lookup"
    /\ \E r \in LookPathResults(NSEnterPaths) :
         LET f == [call[t] EXCEPT !.lookups = @ + 1, !.lookErr = ~r.found]
         IN  IF ~r.found
             THEN /\ NewLookPathFailed(t, f)
                  /\ NSEnterBinPath' = "nsenter"
                  /\ nsWrites' = nsWrites + 1
             ELSE /\ NSEnterBinPath' = r.path
                  /\ nsWrites' = nsWrites + 1
                  /\ NewReturn(t, f)
    /\ UNCHANGED <<NFTBinPath, ncalls, nedits, overlap>>

\* nftns.go:66-71: the lazy lookup, in New called directly or by ReadConfig
NewLookPath(t) ==
    /\ pc[t] = "lookup"
    /\ \E r \in LookPathResults(NSEnterPaths) :
         LET f == [call[t] EXCEPT !.lookups = @ + 1, !.lookErr = ~r.found]
         IN  IF ~r.found
             THEN /\ NewLookPathFailed(t, f)
                  /\ UNCHANGED <<NSEnterBinPath, nsWrites>>
             ELSE /\ NSEnterBinPath' = r.path
                  /\ nsWrites' = nsWrites + 1
                  /\ NewReturn(t, f)
    /\ UNCHANGED <<NFTBinPath, ncalls, nedits, overlap>>

----------------------------------------------------------------------------
(* execCommand, nftns.go:112-140 *)

\* the separator placed after the ruleset tool instead of before it
fullArgs_SeparatorLate(netNSPath, args) ==
    <<"--net=" \o netNSPath, NFTBinPath, "--">> \o args

\* nftns.go:113-117
fullArgs(netNSPath, args) ==
    <<"--net=" \o netNSPath, "--", NFTBinPath>> \o args

\* lines 126-130 without the nil test: an (empty) stream is always attached
AttachStdin_Always(input) == [attached |-> TRUE, data |-> input.elems]

\* nftns.go:126-130: a stdin stream is attached only for a non-nil input
AttachStdin(input) ==
    IF input.isNil
    THEN [attached |-> FALSE, data |-> <<>>]
    ELSE [attached |-> TRUE, data |-> input.elems]

\* a command whose stdin payload carries the document's NetNSPath as well
Command_RefInStdin(f, input, args) ==
    [built |-> TRUE,
     Path |-> NSEnterBinPath,
     Args |-> <<NSEnterBinPath>> \o fullArgs(f.netNSPath, args),
     Stdin |-> IF input.isNil THEN [attached |-> FALSE, data |-> <<>>]
               ELSE [attached |-> TRUE, data |-> <<f.netNSPath>> \o input.elems],
     input |-> input,
     spawned |-> FALSE]

\* nftns.go:120-130: exec.Command(NSEnterBinPath, fullArgs...) with its streams.
\* Args[1] is the command name, as exec.Command sets it.
Command(f, input, args) ==
    [built |-> TRUE,
     Path |-> NSEnterBinPath,
     Args |-> <<NSEnterBinPath>> \o fullArgs(f.netNSPath, args),
     Stdin |-> AttachStdin(input),
     input |-> input,
     spawned |-> FALSE]

\* the error of lines 133-136 without the captured stderr
ExecError_NoStderr(cmd, runErr, out, errout) ==
    [kind |-> "Execution",
     msg |-> <<"failed to execute ", cmd.Path, " ">> \o Join(cmd.Args, " ")
             \o <<": ", runErr, " stdin:'">> \o cmd.input.elems
             \o <<"' stdout:'">> \o out \o <<"'">>,
     unwrap |-> runErr]

\* nftns.go:133-136: the error execCommand returns when cmd.Run fails
ExecError(cmd, runErr, out, errout) ==
    [kind |-> "Execution",
     msg |-> <<"failed to execute ", cmd.Path, " ">> \o Join(cmd.Args, " ")
             \o <<": ", runErr, " stdin:'">> \o cmd.input.elems
             \o <<"' stdout:'">> \o out
             \o <<"' stderr:'">> \o errout \o <<"'">>,
     unwrap |-> runErr]

\* what cmd.Run answers when the process cannot be started
SpawnError(path) ==
    IF path = "" THEN "exec: no command"
    ELSE "fork/exec: no such file or directory"

\* what the process can write and how it can exit
Stdouts ==
    { <<>>,
      <<"{", "nftables", ":", "null", "}">>,
      <<"{", "nftables", ":", "[", "table", ",", "chain", "]", "}">>,
      <<"{", "nftables", ":", "[", "table", ",">> }
Stderrs == { <<>>, <<"Error:", "syntax", "error">> }
ExitStatuses == {0, 1}

\* how the process of cmd can exit: nsenter cannot execute a tool whose path
\* is empty and exits non-zero
ProcessExits(cmd) ==
    IF cmd.Args[4] = "" THEN ExitStatuses \ {0} ELSE ExitStatuses

\* an execCommand that holds a package-wide lock while a process is running
execCommand_Serialized(t, f, input, args) ==
    LET cmd == Command(f, input, args)
        g == [f EXCEPT !.cmd = cmd, !.args = args]
    IN  /\ \A u \in Threads \ {t} : pc[u] # "wait"
        /\ \/ /\ cmd.Path # ""
              /\ pc' = [pc EXCEPT ![t] = "wait"]
              /\ call' = [call EXCEPT ![t] =
                            [g EXCEPT !.cmd.spawned = TRUE, !.spawns = @ + 1]]
           \/ /\ LET e == ExecError(cmd, SpawnError(cmd.Path), <<>>, <<>>)
                 IN  Return(t, [g EXCEPT !.execErr = e, !.err = e])

\* nftns.go:113-132, up to the start of the process: cmd.Run either starts
\* it (the caller then blocks) or fails, and execCommand's error is returned
\* by ReadConfig (line 83) and ApplyConfig (line 106) as it is.
execCommand(t, f, input, args) ==
    LET cmd == Command(f, input, args)
        g == [f EXCEPT !.cmd = cmd, !.args = args]
    IN  \/ /\ cmd.Path # ""
           /\ pc' = [pc EXCEPT ![t] = "wait"]
           /\ call' = [call EXCEPT ![t] =
                         [g EXCEPT !.cmd.spawned = TRUE, !.spawns = @ + 1]]
        \/ /\ LET e == ExecError(cmd, SpawnError(cmd.Path), <<>>, <<>>)
              IN  Return(t, [g EXCEPT !.execErr = e, !.err = e])

\* an execCommand that captures both streams in one buffer (CombinedOutput)
\* and returns it whatever the exit status
execCommandReturn_Combined(f, status, out, errout) ==
    LET g == [f EXCEPT !.status = status, !.out = out, !.errout = errout,
                       !.stdout = Slice(out \o errout)]
    IN  IF status # 0
        THEN [g EXCEPT !.execErr = ExecError(f.cmd, "exit status 1", out, errout)]
        ELSE g

\* nftns.go:132-139: the process exits and cmd.Run returns
execCommandReturn(f, status, out, errout) ==
    LET g == [f EXCEPT !.status = status, !.out = out, !.errout = errout]
    IN  IF status # 0
        THEN [g EXCEPT !.execErr = ExecError(f.cmd, "exit status 1", out, errout)]
        ELSE [g EXCEPT !.stdout = Slice(out)]

----------------------------------------------------------------------------
(* ReadConfig, nftns.go:80-95 *)

\* a ReadConfig that calls New before it runs the tool
ReadConfig_NewFirst(t, netNSPath) ==
    /\ Enter(t)
    /\ IF NSEnterBinPath = ""
       THEN /\ pc' = [pc EXCEPT ![t] = "lookup"]
            /\ call' = [call EXCEPT ![t] = Begin("ReadConfig", netNSPath, 0)]
       ELSE execCommand(t, Begin("ReadConfig", netNSPath, 0), NilSlice,
                        <<cmdJSON, cmdList, cmdRuleset>>)
    /\ UNCHANGED <<NSEnterBinPath, NFTBinPath, docs, nsWrites, nedits>>

\* nftns.go:81: a caller calls ReadConfig(netNSPath)
ReadConfig(t, netNSPath) ==
    /\ Enter(t)
    /\ execCommand(t, Begin("ReadConfig", netNSPath, 0), NilSlice,
                   <<cmdJSON, cmdList, cmdRuleset>>)
    /\ UNCHANGED <<NSEnterBinPath, NFTBinPath, docs, nsWrites, nedits>>

\* nftns.go:81-86: the process of a ReadConfig exits; on success New is entered
ReadConfigWait(t) ==
    /\ pc[t] = "wait"
    /\ call[t].op = "ReadConfig"
    /\ \E status \in ProcessExits(call[t].cmd), out \in Stdouts, errout \in Stderrs :
         LET f == execCommandReturn(call[t], status, out, errout)
         IN  IF f.execErr.kind # "none"
             THEN /\ Return(t, [f EXCEPT !.err = f.execErr])
                  /\ UNCHANGED docs
             ELSE NewCheck(t, f)
    /\ UNCHANGED <<NSEnterBinPath, NFTBinPath, ncalls, nsWrites, nedits, overlap>>

----------------------------------------------------------------------------
(* ApplyConfig, nftns.go:99-110 *)

\* ApplyConfig without lines 101-103: the tool is run on whatever ToJSON left
ApplyConfigEncodeFailed_Ignored(t, f, j) ==
    execCommand(t, f, j.data, <<cmdJSON, cmdFile, cmdStdin>>)

\* nftns.go:101-103: ToJSON failed
ApplyConfigEncodeFailed(t, f, j) ==
    Return(t, [f EXCEPT !.err = j.err])

\* an ApplyConfig that refuses a document that has been applied before
ApplyConfig_Once(t, d) ==
    /\ d \in 1..Len(docs)
    /\ \A u \in Threads : ~(call[u].op = "ApplyConfig" /\ call[u].doc = d)
    /\ Enter(t)
    /\ LET c == docs[d]
           j == ToJSON(c)
           f == [Begin("ApplyConfig", c.NetNSPath, d) EXCEPT !.argc = c]
       IN  IF j.err.kind # "none"
           THEN ApplyConfigEncodeFailed(t, f, j)
           ELSE execCommand(t, f, j.data, <<cmdJSON, cmdFile, cmdStdin>>)
    /\ UNCHANGED <<NSEnterBinPath, NFTBinPath, docs, nsWrites, nedits>>

\* nftns.go:100-105: a caller calls ApplyConfig(c), c a document it holds
ApplyConfig(t, d) ==
    /\ d \in 1..Len(docs)
    /\ Enter(t)
    /\ LET c == docs[d]
           j == ToJSON(c)
           f == [Begin("ApplyConfig", c.NetNSPath, d) EXCEPT !.argc = c]
       IN  IF j.err.kind # "none"
           THEN ApplyConfigEncodeFailed(t, f, j)
           ELSE execCommand(t, f, j.data, <<cmdJSON, cmdFile, cmdStdin>>)
    /\ UNCHANGED <<NSEnterBinPath, NFTBinPath, docs, nsWrites, nedits>>

\* an ApplyConfig that empties the document once the tool has taken it
ApplyConfigReturn_ClearsDocument(t, f) ==
    /\ Return(t, [f EXCEPT !.err = f.execErr])
    /\ docs' = [docs EXCEPT ![f.doc].Nftables = Slice(<<>>)]

\* an ApplyConfig that runs the tool again when it has failed
ApplyConfigReturn_Retries(t, f) ==
    IF f.execErr.kind # "none" /\ f.spawns < 2
    THEN /\ pc' = pc
         /\ call' = [call EXCEPT ![t] = [f EXCEPT !.execErr = NoError,
                                                  !.spawns = @ + 1]]
         /\ UNCHANGED docs
    ELSE /\ Return(t, [f EXCEPT !.err = f.execErr])
         /\ UNCHANGED docs

\* nftns.go:105-109: execCommand's buffer is dropped, its error returned
ApplyConfigReturn(t, f) ==
    /\ Return(t, [f EXCEPT !.err = f.execErr])
    /\ UNCHANGED docs

\* nftns.go:105-109: the process of an ApplyConfig exits
ApplyConfigWait(t) ==
    /\ pc[t] = "wait"
    /\ call[t].op = "ApplyConfig"
    /\ \E status \in ProcessExits(call[t].cmd), out \in Stdouts, errout \in Stderrs :
         ApplyConfigReturn(t, execCommandReturn(call[t], status, out, errout))
    /\ UNCHANGED <<NSEnterBinPath, NFTBinPath, ncalls, nsWrites, nedits, overlap>>

----------------------------------------------------------------------------
(* The caller between calls: Config's fields are exported (nftns.go:53-56) *)
(* and a caller edits the entity sequence of a document it holds.          *)

CallerEdit(d, e) ==
    /\ d \in 1..Len(docs)
    /\ nedits < MaxEdits
    /\ nedits' = nedits + 1
    /\ docs' = [docs EXCEPT ![d].Nftables = Slice(@.elems \o <<e>>)]
    /\ UNCHANGED <<NSEnterBinPath, NFTBinPath, pc, call, ncalls, nsWrites, overlap>>

----------------------------------------------------------------------------

Next ==
    \/ \E t \in Threads, netNSPath \in Refs : New(t, netNSPath)
    \/ \E t \in Threads : NewLookPath(t)
    \/ \E t \in Threads, netNSPath \in Refs : ReadConfig(t, netNSPath)
    \/ \E t \in Threads : ReadConfigWait(t)
    \/ \E t \in Threads, d \in 1..MaxCalls : ApplyConfig(t, d)
    \/ \E t \in Threads : ApplyConfigWait(t)
    \/ \E d \in 1..MaxCalls, e \in Entities : CallerEdit(d, e)

Spec == Init /\ [][Next]_vars

----------------------------------------------------------------------------
(* Properties *)

Returned(t, op) == pc[t] = "idle" /\ call[t].op = op

\* C1: whenever New(ref) returns a document and no error, the document's
\* entity sequence is initialized (not nil) and empty and the document is
\* bound to ref, whatever the tool paths are.
C1_NewReturnsEmptyInitialized ==
    \A t \in Threads :
        (Returned(t, "New") /\ call[t].err.kind = "none") =>
            /\ call[t].ret \in 1..Len(docs)
            /\ ~call[t].retc.Nftables.isNil
            /\ call[t].retc.Nftables.elems = <<>>
            /\ call[t].retc.NetNSPath = call[t].netNSPath

\* a New that had to look the tool up, and one that did not, returned documents
C1_Witness ==
    \E t, u \in Threads :
        /\ Returned(t, "New") /\ call[t].ret # 0 /\ call[t].lookups = 1
        /\ Returned(u, "New") /\ call[u].ret # 0 /\ call[u].lookups = 0

\* C2: when New finds NSEnterBinPath empty and its lookup fails, it returns
\* the lookup's error and no document, and the call has started no process.
C2_LookupFailureFailsNew ==
    \A t \in Threads :
        (Returned(t, "New") /\ call[t].lookErr) =>
            /\ call[t].err.kind = "ToolNotFound"
            /\ call[t].ret = 0
            /\ call[t].spawns = 0
            /\ ~call[t].cmd.built

\* a New whose lookup failed has returned
C2_Witness ==
    \E t \in Threads :
        Returned(t, "New") /\ call[t].lookups = 1 /\ call[t].lookErr

\* the tool arguments each operation hands to execCommand
ReadArgs == <<"-j", "list", "ruleset">>
ApplyArgs == <<"-j", "-f", "-">>

\* the argument vector of the command a call built (exec.Cmd.Args less the name)
ArgVector(f) == Tail(f.cmd.Args)

\* C3: every command execCommand builds has the argument vector
\* [--net=<ref>, --, NFTBinPath, args...]: the namespace option first, the
\* separator immediately before the ruleset-tool path, then the args in order.
C3_ArgumentOrder ==
    \A t \in Threads :
        call[t].cmd.built =>
            LET av == ArgVector(call[t])
                args == IF call[t].op = "ReadConfig" THEN ReadArgs ELSE ApplyArgs
                ref == IF call[t].op = "ReadConfig" THEN call[t].netNSPath
                       ELSE call[t].argc.NetNSPath
            IN  /\ Len(av) = 3 + Len(args)
                /\ av[1] = "--net=" \o ref
                /\ av[2] = "--"
                /\ av[3] = NFTBinPath
                /\ SubSeq(av, 4, Len(av)) = args

\* both operations have built a command, for different namespaces
C3_Witness ==
    \E t, u \in Threads :
        /\ call[t].op = "ReadConfig" /\ call[t].cmd.built
        /\ call[u].op = "ApplyConfig" /\ call[u].cmd.built
        /\ call[t].netNSPath # call[u].netNSPath

\* C4: a process started by ReadConfig has the tool arguments -j list ruleset
\* and no stdin stream; one started by ApplyConfig has -j -f - and a stdin
\* stream holding the encoding of the document applied; no other argument
\* sequence is issued.
C4_ReadAndApplyInvocations ==
    \A t \in Threads :
        call[t].cmd.built =>
            LET av == ArgVector(call[t])
                toolArgs == SubSeq(av, 4, Len(av))
            IN  /\ call[t].op \in {"ReadConfig", "ApplyConfig"}
                /\ call[t].op = "ReadConfig" =>
                       /\ toolArgs = ReadArgs
                       /\ ~call[t].cmd.Stdin.attached
                /\ call[t].op = "ApplyConfig" =>
                       /\ toolArgs = ApplyArgs
                       /\ call[t].cmd.Stdin.attached
                       /\ ToJSON(call[t].argc).err.kind = "none"
                       /\ call[t].cmd.Stdin.data = ToJSON(call[t].argc).data.elems

\* a read process and an apply process of a non-empty document are in flight
C4_Witness ==
    \E t, u \in Threads :
        /\ pc[t] = "wait" /\ call[t].op = "ReadConfig" /\ call[t].cmd.spawned
        /\ pc[u] = "wait" /\ call[u].op = "ApplyConfig" /\ call[u].cmd.spawned
        /\ call[u].argc.Nftables.elems # <<>>

\* C5: an ApplyConfig whose document cannot be encoded returns the encode
\* error and starts no process; a process is started only after a
\* successful encode.
C5_EncodeFailureAborts ==
    \A t \in Threads :
        call[t].op = "ApplyConfig" =>
            /\ ToJSON(call[t].argc).err.kind # "none" =>
                   /\ pc[t] = "idle"
                   /\ call[t].err.kind = "Encode"
                   /\ call[t].spawns = 0
                   /\ ~call[t].cmd.built
            /\ call[t].spawns > 0 => ToJSON(call[t].argc).err.kind = "none"

\* an ApplyConfig of a document that cannot be encoded has returned
C5_Witness ==
    \E t \in Threads :
        /\ Returned(t, "ApplyConfig")
        /\ ToJSON(call[t].argc).err.kind # "none"

\* caller t takes a step inside a call of op: its frame or its position
\* changes, or (a call that returns at once with the very result t already
\* held) only the number of calls does.  A CallerEdit changes none of these.
StepOf(t, op) ==
    /\ call'[t].op = op
    /\ \/ call'[t] # call[t]
       \/ pc'[t] # pc[t]
       \/ ncalls' # ncalls /\ call' = call /\ pc' = pc /\ pc[t] = "idle"
ReadStep(t) == StepOf(t, "ReadConfig")
ApplyStep(t) == StepOf(t, "ApplyConfig")

\* C6: no step of ReadConfig or of ApplyConfig changes a document that
\* exists: every document keeps its entity sequence and its reference, a
\* ReadConfig that returns an error adds no document, and ApplyConfig,
\* failed or not, leaves docs as it is.
C6_NoMutationOfExistingDocuments ==
    [][\A t \in Threads :
         /\ (ReadStep(t) \/ ApplyStep(t)) =>
                /\ Len(docs') >= Len(docs)
                /\ \A d \in 1..Len(docs) : docs'[d] = docs[d]
         /\ (ReadStep(t) /\ call'[t].err.kind # "none") => docs' = docs
         /\ ApplyStep(t) => docs' = docs]_vars

\* a ReadConfig has failed at each stage and an ApplyConfig has succeeded and
\* failed, each while a document with a non-empty entity sequence existed
C6_Witness ==
    /\ \E d \in 1..Len(docs) : docs[d].Nftables.elems # <<>>
    /\ \E t, u \in Threads :
         /\ Returned(t, "ReadConfig")
         /\ call[t].err.kind = "Decode"
         /\ Returned(u, "ApplyConfig")
         /\ call[u].cmd.spawned
         /\ call[u].argc.Nftables.elems # <<>>

\* the process of the call was started and has exited / could not be started
Exited(t) == pc[t] = "idle" /\ call[t].cmd.spawned
SpawnFailed(t) == call[t].cmd.built /\ ~call[t].cmd.spawned

\* C7: when the process exits non-zero or cannot be started, execCommand
\* returns no buffer and an error whose rendered form holds the executable
\* path, the argument vector, the error of cmd.Run, the input sent, the
\* captured stdout and the captured stderr (verbatim, each after its label);
\* ReadConfig and ApplyConfig return that error.
C7_ExecutionErrorContext ==
    \A t \in Threads :
        ((Exited(t) /\ call[t].status # 0) \/ SpawnFailed(t)) =>
            LET f == call[t]
                e == f.execErr
                runErr == IF SpawnFailed(t) THEN SpawnError(f.cmd.Path)
                          ELSE "exit status 1"
            IN  /\ e.kind = "Execution"
                /\ f.stdout.isNil
                /\ f.err = e
                /\ f.ret = 0
                /\ Contains(e.msg, <<"failed to execute ", f.cmd.Path>>)
                /\ Contains(e.msg, Join(ArgVector(f), " "))
                /\ Contains(e.msg, <<runErr>>)
                /\ e.unwrap = runErr
                /\ Contains(e.msg, <<" stdin:'">> \o f.cmd.Stdin.data
                                    \o <<"' stdout:'">> \o f.out
                                    \o <<"' stderr:'">> \o f.errout \o <<"'">>)
                /\ Contains(e.msg, f.errout)

\* an ApplyConfig and a ReadConfig have both failed with exit status 1 and a
\* non-empty stderr, the ApplyConfig having sent a non-empty document
C7_Witness ==
    \E t, u \in Threads :
        /\ Returned(t, "ApplyConfig") /\ Exited(t) /\ call[t].status = 1
        /\ call[t].errout = <<"Error:", "syntax", "error">>
        /\ call[t].argc.Nftables.elems # <<>>
        /\ Returned(u, "ReadConfig") /\ Exited(u) /\ call[u].status = 1
        /\ call[u].errout # <<>>

C9_NoRetry ==
    \A t \in Threads :
        LET f == call[t]
        IN  /\ f.spawns <= 1
            /\ (f.cmd.built /\ pc[t] # "wait" /\ (~f.cmd.spawned \/ f.status # 0)) =>
                   /\ pc[t] = "idle"
                   /\ f.err.kind = "Execution"
                   /\ f.spawns = IF f.cmd.spawned THEN 1 ELSE 0
            /\ (Returned(t, "ApplyConfig") /\ f.err.kind = "none") =>
                   /\ f.spawns = 1
                   /\ f.status = 0

\* an ApplyConfig has failed with exit status 1 and another has succeeded
C9_Witness ==
    \E t, u \in Threads :
        /\ Returned(t, "ApplyConfig") /\ Exited(t) /\ call[t].status = 1
        /\ Returned(u, "ApplyConfig") /\ call[u].err.kind = "none"

\* C10: execCommand returns a buffer only when the process exited with
\* status 0, and the buffer is the captured stdout alone; what ReadConfig
\* returns is made from stdout only, ApplyConfig returns no document and no
\* error exactly when the process exited with status 0, and the captured
\* stderr shows in errors only.
C10_StdoutIsTheOnlyPayload ==
    \A t \in Threads :
        LET f == call[t]
            fresh == [NetNSPath |-> f.netNSPath, Nftables |-> Slice(<<>>)]
        IN  /\ ~f.stdout.isNil =>
                   /\ f.cmd.spawned /\ f.status = 0
                   /\ f.stdout.elems = f.out
                   /\ f.execErr.kind = "none"
            /\ (Exited(t) /\ f.status # 0) => f.stdout.isNil
            /\ (Returned(t, "ReadConfig") /\ f.ret # 0) =>
                   f.retc = FromJSON(fresh, f.out).c
            /\ Returned(t, "ApplyConfig") =>
                   /\ f.ret = 0
                   /\ (f.err.kind = "none") <=> (Exited(t) /\ f.status = 0)
            /\ (pc[t] = "idle" /\ f.err.kind = "none" /\ f.errout # <<>>) =>
                   ~Contains(f.stdout.elems, f.errout)

\* a ReadConfig and an ApplyConfig have succeeded although their processes
\* wrote to stderr
C10_Witness ==
    \E t, u \in Threads :
        /\ Returned(t, "ReadConfig") /\ call[t].ret # 0 /\ call[t].errout # <<>>
        /\ Returned(u, "ApplyConfig") /\ call[u].err.kind = "none"
        /\ call[u].errout # <<>> /\ call[u].out # <<>>

\* the command of an ApplyConfig has been built
Applying(t) == call[t].op = "ApplyConfig" /\ call[t].cmd.built

\* C11: NetNSPath is not part of the serialized form: the payload an
\* ApplyConfig attaches to stdin is the payload of every document with the
\* same entity sequence, whatever that document's reference; two ApplyConfig
\* commands for equal entity sequences carry identical payloads and argument
\* vectors that differ in the --net= option at most; the reference appears
\* in the --net= option and nowhere else.
C11_ReferenceNotSerialized ==
    \A t \in Threads :
        Applying(t) =>
            LET f == call[t]
                av == ArgVector(f)
            IN  /\ \A d \in 1..Len(docs) :
                       docs[d].Nftables = f.argc.Nftables =>
                           f.cmd.Stdin.data = ToJSON(docs[d]).data.elems
                /\ \A u \in Threads :
                       (Applying(u) /\ call[u].argc.Nftables = f.argc.Nftables) =>
                           /\ call[u].cmd.Stdin = f.cmd.Stdin
                           /\ Tail(ArgVector(call[u])) = Tail(av)
                /\ \A i \in 1..Len(f.cmd.Stdin.data) :
                       f.cmd.Stdin.data[i] \notin Refs
                /\ av[1] = "--net=" \o f.argc.NetNSPath
                /\ Tail(av) = <<"--", NFTBinPath>> \o ApplyArgs

\* an ApplyConfig has started its process for a document while another
\* document holds the same non-empty entity sequence under another reference
C11_Witness ==
    \E t \in Threads, d \in 1..Len(docs) :
        /\ Applying(t) /\ call[t].cmd.spawned
        /\ call[t].argc.Nftables.elems # <<>>
        /\ docs[d].Nftables = call[t].argc.Nftables
        /\ docs[d].NetNSPath # call[t].argc.NetNSPath

\* C12: the reference of a document never changes: every step keeps every
\* existing document and its NetNSPath; a document returned by New(ref) or
\* ReadConfig(ref) is bound to ref; the process of an ApplyConfig is bound by
\* its --net= option to the NetNSPath of the document it was called with.
C12_ReferenceImmutable ==
    [][/\ Len(docs') >= Len(docs)
       /\ \A d \in 1..Len(docs) : docs'[d].NetNSPath = docs[d].NetNSPath
       /\ \A t \in Threads :
              LET f == call'[t]
              IN  /\ (pc'[t] = "idle" /\ f.op \in {"New", "ReadConfig"}
                      /\ f.ret # 0) =>
                         /\ f.retc.NetNSPath = f.netNSPath
                         /\ docs'[f.ret].NetNSPath = f.netNSPath
                         /\ f.netNSPath \in Refs
                  /\ (f.op = "ApplyConfig" /\ f.cmd.spawned) =>
                         /\ ArgVector(f)[1] = "--net=" \o f.argc.NetNSPath
                         /\ docs'[f.doc].NetNSPath = f.argc.NetNSPath]_vars

\* a document returned by ReadConfig has been edited by its caller and is
\* being applied, and another call on another reference has returned since
C12_Witness ==
    \E t, u \in Threads :
        /\ Returned(t, "ReadConfig") /\ call[t].ret = 1
        /\ call[u].op = "ApplyConfig" /\ call[u].doc = 1 /\ call[u].cmd.spawned
        /\ docs[1].Nftables # call[t].retc.Nftables
        /\ Len(docs) = 2 /\ docs[2].NetNSPath # docs[1].NetNSPath

\* c is a document whose entity sequence is non-empty and well-formed
WellFormed(c) ==
    /\ c.Nftables.elems # <<>>
    /\ \A i \in 1..Len(c.Nftables.elems) : c.Nftables.elems[i] \in Encodable

\* decoding the bytes ToJSON gives for c into a document New has returned
RoundTrip(c) == FromJSON(InitNftables(Config(c.NetNSPath)), ToJSON(c).data.elems)

\* C13: round trip: every document with a non-empty, well-formed entity
\* sequence encodes without error, and decoding the encoded bytes (the bytes
\* an ApplyConfig of the document sends) succeeds and gives the same entity
\* sequence, in the same order.
C13_RoundTrip ==
    /\ \A d \in 1..Len(docs) :
           WellFormed(docs[d]) =>
               /\ ToJSON(docs[d]).err.kind = "none"
               /\ RoundTrip(docs[d]).err.kind = "none"
               /\ RoundTrip(docs[d]).c.Nftables = docs[d].Nftables
    /\ \A t \in Threads :
           (Applying(t) /\ WellFormed(call[t].argc)) =>
               LET r == FromJSON(InitNftables(Config(call[t].netNSPath)),
                                 call[t].cmd.Stdin.data)
               IN  /\ r.err.kind = "none"
                   /\ r.c = call[t].argc

\* an ApplyConfig has sent the payload of a document of three entities that
\* are not all the same
C13_Witness ==
    \E t \in Threads :
        /\ Applying(t) /\ call[t].cmd.spawned /\ WellFormed(call[t].argc)
        /\ Len(call[t].argc.Nftables.elems) = 3
        /\ call[t].argc.Nftables.elems[1] # call[t].argc.Nftables.elems[2]
        /\ call[t].argc.Nftables.elems[1] = call[t].argc.Nftables.elems[3]

C15_WrittenAtMostTwice == nsWrites <= 2

\* C16: NFTBinPath is resolved by init() only: no step of New, ReadConfig or
\* ApplyConfig changes it, not even when init() left it empty, and every
\* command is built with the path as it is; the lazy lookup writes
\* NSEnterBinPath alone.
C16_NFTBinPathResolvedOnce ==
    [][/\ NFTBinPath' = NFTBinPath
       /\ \A t \in Threads :
              /\ call'[t].cmd.built => ArgVector(call'[t])[3] = NFTBinPath
              /\ call'[t].lookups > call[t].lookups =>
                     /\ pc[t] = "lookup"
                     /\ NSEnterBinPath' \in NSEnterPaths \cup {NSEnterBinPath}]_vars

\* init() left both paths empty; a New has resolved nsenter since, and a
\* ReadConfig and an ApplyConfig have run their processes with the empty
\* ruleset-tool path
C16_Witness ==
    \E t, u \in Threads :
        /\ NFTBinPath = "" /\ NSEnterBinPath # "" /\ nsWrites = 2
        /\ Returned(t, "ReadConfig") /\ call[t].spawns = 1
        /\ Returned(u, "ApplyConfig") /\ call[u].spawns = 1
        /\ ArgVector(call[t])[3] = "" /\ ArgVector(call[u])[3] = ""

\* the process of t's call is running
InFlight(t) == pc[t] = "wait" /\ call[t].cmd.spawned

\* the process of t's call was given the arguments and the input of that call
OwnCommand(t) ==
    LET f == call[t]
    IN  IF f.op = "ReadConfig"
        THEN /\ ArgVector(f) = fullArgs(f.netNSPath, ReadArgs)
             /\ ~f.cmd.Stdin.attached
        ELSE /\ f.op = "ApplyConfig"
             /\ ArgVector(f) = fullArgs(f.argc.NetNSPath, ApplyArgs)
             /\ f.cmd.Stdin = [attached |-> TRUE,
                               data |-> ToJSON(f.argc).data.elems]

\* t's call returned what its own process wrote, or the error of that process
OwnResult(t) ==
    LET f == call[t]
        fresh == InitNftables(Config(f.netNSPath))
    IN  IF f.status # 0
        THEN /\ f.ret = 0
             /\ f.err = ExecError(f.cmd, "exit status 1", f.out, f.errout)
        ELSE IF f.op = "ApplyConfig" THEN f.err.kind = "none"
        ELSE IF f.ret # 0 THEN f.retc = FromJSON(fresh, f.out).c
        ELSE /\ f.err.kind = "Decode"
             /\ Contains(f.err.msg, FromJSON(fresh, f.out).err.msg)

\* C17: concurrent ReadConfig and ApplyConfig calls are independent and not
\* serialized: every process started has the argument vector and the stdin
\* of its own call, every call whose process has exited returns what that
\* process wrote or its error, a caller can start a process while the process
\* of another call on the same namespace is running, and no step of one
\* caller changes the call of the other.
C17_CallsAreIndependent ==
    /\ [](\A t \in Threads :
              /\ call[t].cmd.spawned => OwnCommand(t)
              /\ Exited(t) => OwnResult(t)
              /\ \A u \in Threads \ {t} :
                     (InFlight(t) /\ pc[u] = "idle" /\ ncalls < MaxCalls) =>
                         ENABLED (/\ ReadConfig(u, call[t].netNSPath)
                                  /\ pc'[u] = "wait"))
    /\ [][\A t \in Threads :
              (call'[t] # call[t] \/ pc'[t] # pc[t]) =>
                  \A u \in Threads \ {t} :
                      call'[u] = call[u] /\ pc'[u] = pc[u]]_vars

\* a ReadConfig and an ApplyConfig on the same namespace have their
\* processes running at the same time
C17_Witness ==
    \E t, u \in Threads :
        /\ InFlight(t) /\ call[t].op = "ReadConfig"
        /\ InFlight(u) /\ call[u].op = "ApplyConfig"
        /\ call[u].argc.NetNSPath = call[t].netNSPath
        /\ call[u].cmd.Stdin.data # <<>>

\* C18: ReadConfig runs execCommand before New: a ReadConfig called while
\* NSEnterBinPath is empty builds its command with the empty path, starts no
\* process and returns execCommand's error ("exec: no command") without any
\* lookup; no ReadConfig ever looks the tool up or returns the lookup's
\* error; while the path is empty no ReadConfig has started a process or
\* returned a document, and the path is only ever written by a call of New.
C18_ReadRunsToolBeforeNew ==
    /\ [](\A t \in Threads :
              call[t].op = "ReadConfig" =>
                  LET f == call[t]
                  IN  /\ f.cmd.built
                      /\ f.lookups = 0 /\ pc[t] # "lookup"
                      /\ f.err.kind # "ToolNotFound"
                      /\ f.cmd.Path = "" =>
                             /\ ~f.cmd.spawned /\ f.spawns = 0
                             /\ pc[t] = "idle" /\ f.ret = 0
                             /\ f.err.kind = "Execution"
                             /\ f.err.unwrap = "exec: no command"
                      /\ (f.cmd.spawned \/ f.ret # 0) =>
                             f.cmd.Path # "" /\ NSEnterBinPath # "")
    /\ [][NSEnterBinPath' # NSEnterBinPath =>
              \E t \in Threads :
                  /\ call[t].op = "New" /\ pc[t] = "lookup"
                  /\ call'[t].lookups = 1 /\ pc'[t] = "idle"]_vars

\* a ReadConfig called with the empty path has failed without a lookup, a New
\* has resolved the path since, and a later ReadConfig has returned a document
C18_Witness ==
    \E t, u \in Threads :
        /\ Returned(t, "ReadConfig") /\ call[t].cmd.Path = ""
        /\ call[t].err.kind = "Execution" /\ call[t].lookups = 0
        /\ Returned(u, "ReadConfig") /\ call[u].ret # 0
        /\ nsWrites = 2 /\ ~overlap

\* caller t calls New in this step (a New never leaves t's frame as it was:
\* it returns a new document or goes to the lookup)
NewEntry(t) ==
    /\ pc[t] = "idle" /\ ncalls' # ncalls
    /\ call'[t].op = "New"
    /\ call'[t] # call[t] \/ pc'[t] # pc[t]

\* C19: once NSEnterBinPath is non-empty it stays non-empty in every
\* execution; a New that finds it non-empty returns its document at once,
\* with no lookup and no write; and as long as no two calls have overlapped,
\* a non-empty path is never written again, so it keeps the value of its
\* first successful resolution.
C19_PathStaysResolved ==
    /\ [][NSEnterBinPath # "" => NSEnterBinPath' # ""]_vars
    /\ [][\A t \in Threads :
              (NewEntry(t) /\ NSEnterBinPath # "") =>
                  /\ pc'[t] = "idle" /\ call'[t].ret = Len(docs')
                  /\ call'[t].lookups = 0 /\ call'[t].err.kind = "none"
                  /\ NSEnterBinPath' = NSEnterBinPath
                  /\ nsWrites' = nsWrites]_vars
    /\ [][(~overlap' /\ NSEnterBinPath # "") =>
              NSEnterBinPath' = NSEnterBinPath /\ nsWrites' = nsWrites]_vars

\* with no two calls overlapping, a New has resolved the path and the next
\* two calls of New have returned documents without a lookup
C19_Witness ==
    \E t, u \in Threads :
        /\ ~overlap /\ nsWrites = 2 /\ ncalls = 3 /\ Len(docs) = 3
        /\ Returned(t, "New") /\ Returned(u, "New")
        /\ call[t].lookups = 0 /\ call[u].lookups = 0
        /\ call[t].ret = 2 /\ call[u].ret = 3

\* the lookup of t's New ends in this step
LookupEnds(t) == pc[t] = "lookup" /\ pc'[t] # pc[t]

\* C20: a call of New makes at most one lookup; a failed lookup writes
\* nothing, so the path is as it was (empty, unless an overlapping call has
\* resolved it); every New called while the path is empty goes to the lookup,
\* whatever earlier calls did; and a New whose lookup succeeds returns a
\* document and no error and leaves the path resolved.
C20_LookupRetriedPerCall ==
    /\ [](\A t \in Threads : call[t].lookups <= 1)
    /\ [][\A t \in Threads :
              /\ (NewEntry(t) /\ NSEnterBinPath = "") =>
                     /\ pc'[t] = "lookup" /\ call'[t].lookups = 0
                     /\ Len(docs') = Len(docs)
              /\ LookupEnds(t) =>
                     /\ pc'[t] = "idle" /\ call'[t].lookups = 1
                     /\ IF call'[t].lookErr
                        THEN /\ NSEnterBinPath' = NSEnterBinPath
                             /\ nsWrites' = nsWrites
                             /\ ~overlap => NSEnterBinPath' = ""
                             /\ call'[t].ret = 0
                             /\ call'[t].err.kind = "ToolNotFound"
                        ELSE /\ NSEnterBinPath' \in NSEnterPaths
                             /\ call'[t].ret = Len(docs')
                             /\ Len(docs') = Len(docs) + 1
                             /\ call'[t].err.kind = "none"]_vars

\* three calls have been made, no two overlapping: a New has failed in its
\* lookup and a later New has looked the tool up and returned the only document
C20_Witness ==
    \E t \in Threads :
        /\ ~overlap /\ ncalls = 3 /\ Len(docs) = 1 /\ nsWrites = 2
        /\ Returned(t, "New") /\ call[t].ret = 1
        /\ call[t].lookups = 1 /\ ~call[t].lookErr
        /\ \A u \in Threads \ {t} :
               Returned(u, "New") /\ call[u].lookErr /\ call[u].ret = 0

====
